---- MODULE Spec2Model ----
(***************************************************************************)
(* State-machine model of src/app.py (SHOWROOM event participants checker). *)
(*                                                                         *)
(*   SpecMerge   build_combined_event_list  (merge, cutoff filter, sort)    *)
(*                                                                         *)
(* Python values are tagged records  [t, n, s]  (see None_, I, F, S), and  *)
(* Python strings are sequences of one-character strings, so that str(),   *)
(* int(), float(), strip() and the regular expressions are computed.       *)
(***************************************************************************)
EXTENDS Integers, Sequences, FiniteSets, TLC

VARIABLES
    \* build_combined_event_list
    mpc,             \* position in build_combined_event_list
    api_events,      \* list returned by get_events_from_api()
    backup_events,   \* list returned by get_events_from_backup()
    combined,        \* the dict `combined`, as its (key, value) items in insertion order
    filtered         \* the list `filtered` (the value returned once mpc = "done")

    \* get_events_from_api
VARIABLES
    apc,             \* "paging", "returned", or "raised" (an exception left the function)
    status_idx,      \* index in `statuses` of the status being paged
    page,            \* the variable `page`
    all_events,      \* the list `all_events`
    page_len,        \* how many records the endpoint puts on a non-empty page
    requests         \* history: every request issued, with what came back

    \* fetch_room_profile
VARIABLES
    ppc,             \* "call", "returned", or "raised"
    room_id,         \* the argument
    response,        \* what the profile endpoint answers to this call
    profile          \* the value returned

    \* the "show participants" handler of the page
VARIABLES
    upc,             \* "clicked", "listed", "fetched", "shown"
    rooms_raw,       \* what fetch_event_room_list returned
    site,            \* room id -> what the profile endpoint answers for it
    room_entries,    \* the list `room_entries`
    profiles,        \* the list `profiles`
    top_df           \* the rows of `top_df`, in order

    \* rank_key
VARIABLES
    kpc,             \* "start", "done"
    labels,          \* two rank labels
    keys             \* rank_key of each

mergeVars == <<mpc, api_events, backup_events, combined, filtered>>
apiVars == <<apc, status_idx, page, all_events, page_len, requests>>
profVars == <<ppc, room_id, response, profile>>
rankVars == <<upc, rooms_raw, site, room_entries, profiles, top_df>>
keyVars == <<kpc, labels, keys>>
vars == <<mergeVars, apiVars, profVars, rankVars, keyVars>>

\* the variables of the functions a specification does not run
notMerge == <<apiVars, profVars, rankVars, keyVars>>
notApi == <<mergeVars, profVars, rankVars, keyVars>>
notProfile == <<mergeVars, apiVars, rankVars, keyVars>>
notRank == <<mergeVars, apiVars, profVars, keyVars>>
notKey == <<mergeVars, apiVars, profVars, rankVars>>

\* a function that is not running (each specification runs one function)
MergeIdle ==
    /\ mpc = "idle"
    /\ api_events = <<>>
    /\ backup_events = <<>>
    /\ combined = <<>>
    /\ filtered = <<>>

ApiIdle ==
    /\ apc = "idle"
    /\ status_idx = 1
    /\ page = 1
    /\ all_events = <<>>
    /\ page_len = 1
    /\ requests = <<>>

ProfileIdle ==
    /\ ppc = "idle"
    /\ room_id = <<>>
    /\ response = <<>>
    /\ profile = <<>>

RankIdle ==
    /\ upc = "idle"
    /\ rooms_raw = <<>>
    /\ site = <<>>
    /\ room_entries = <<>>
    /\ profiles = <<>>
    /\ top_df = <<>>

KeyIdle ==
    /\ kpc = "idle"
    /\ labels = <<>>
    /\ keys = <<>>

----------------------------------------------------------------------------
(* Python values                                                           *)

None_ == [t |-> "none", n |-> 0, s |-> <<>>]
I(k) == [t |-> "int", n |-> k, s |-> <<>>]
\* the float  k.frac  (frac: its fractional digits as printed by str())
F(k, frac) == [t |-> "float", n |-> k, s |-> frac]
S(str) == [t |-> "str", n |-> 0, s |-> str]
\* a non-empty JSON array met where a scalar was expected
Compound == [t |-> "compound", n |-> 0, s |-> <<>>]
\* a non-empty JSON object (a dict) as a value: s holds the dict
Dict(d) == [t |-> "dict", n |-> 0, s |-> d]

Digits == <<"0", "1", "2", "3", "4", "5", "6", "7", "8", "9">>
IsDigit(c) == \E d \in 1..10 : Digits[d] = c
DigitVal(c) == (CHOOSE d \in 1..10 : Digits[d] = c) - 1
AllDigits(s) == \A i \in 1..Len(s) : IsDigit(s[i])
AllZeros(s) == \A i \in 1..Len(s) : s[i] = "0"

RECURSIVE StrToNat(_)
StrToNat(s) ==
    IF s = <<>> THEN 0
    ELSE StrToNat(SubSeq(s, 1, Len(s) - 1)) * 10 + DigitVal(s[Len(s)])

RECURSIVE NatToStr(_)
NatToStr(k) ==
    IF k < 10 THEN <<Digits[k + 1]>>
    ELSE NatToStr(k \div 10) \o <<Digits[(k % 10) + 1]>>

IntToStr(k) == IF k < 0 THEN <<"-">> \o NatToStr(-k) ELSE NatToStr(k)

RECURSIVE LStrip(_)
LStrip(s) == IF s # <<>> /\ s[1] = " " THEN LStrip(Tail(s)) ELSE s
RECURSIVE RStrip(_)
RStrip(s) ==
    IF s # <<>> /\ s[Len(s)] = " " THEN RStrip(SubSeq(s, 1, Len(s) - 1)) ELSE s
Strip(s) == RStrip(LStrip(s))

\* str(val)
PyStr(v) ==
    CASE v.t = "none" -> <<"N", "o", "n", "e">>
      [] v.t = "int" -> IntToStr(v.n)
      [] v.t = "float" -> IntToStr(v.n) \o <<".">> \o v.s
      [] v.t = "str" -> v.s
      [] OTHER -> <<"[", ".", ".", ".", "]">>

\* bool(val), as used by `a or b`
Truthy(v) ==
    CASE v.t = "none" -> FALSE
      [] v.t = "int" -> v.n # 0
      [] v.t = "float" -> ~(v.n = 0 /\ AllZeros(v.s))
      [] v.t = "str" -> v.s # <<>>
      [] OTHER -> TRUE

Or(a, b) == IF Truthy(a) THEN a ELSE b

\* dict.get(key): None when the key is absent
Get(d, k) == IF k \in DOMAIN d THEN d[k] ELSE None_
\* d[key] = v
Put(d, k, v) == [x \in (DOMAIN d) \cup {k} |-> IF x = k THEN v ELSE d[x]]

----------------------------------------------------------------------------
(* normalize_event_id_val                                                  *)

\* re.match(r'^\d+(\.0+)?$', s)
MatchesIntLike(s) ==
    \E k \in 1..Len(s) :
        /\ AllDigits(SubSeq(s, 1, k))
        /\ \/ k = Len(s)
           \/ /\ Len(s) >= k + 2
              /\ s[k + 1] = "."
              /\ AllZeros(SubSeq(s, k + 2, Len(s)))

\* the run of digits s starts with
RECURSIVE LeadingDigits(_)
LeadingDigits(s) ==
    IF s # <<>> /\ IsDigit(s[1]) THEN <<s[1]>> \o LeadingDigits(Tail(s)) ELSE <<>>

NormalizeStr(s0) ==
    LET s == Strip(s0) IN
    IF MatchesIntLike(s) THEN S(NatToStr(StrToNat(LeadingDigits(s))))
    ELSE IF s = <<>> THEN None_
    ELSE S(s)

normalize_event_id_val(val) ==
    CASE val.t = "none" -> None_
      [] val.t = "int" -> S(IntToStr(val.n))
      [] val.t = "float" ->
            IF AllZeros(val.s) THEN S(IntToStr(val.n)) ELSE S(Strip(PyStr(val)))
      [] OTHER -> NormalizeStr(PyStr(val))

----------------------------------------------------------------------------
(* int(float(x)) of the timestamp normalisation                            *)

NoInt == [ok |-> FALSE, n |-> 0]
SomeInt(k) == [ok |-> TRUE, n |-> k]

\* float(s) for a string, then int(): optional sign, digits, optional
\* fraction; anything else raises ValueError.  (Exponents, "inf", "nan" and
\* digit separators are not in the alphabet of the modelled inputs.)
IntOfFloatStr(s0) ==
    LET s == Strip(s0)
        neg == s # <<>> /\ s[1] = "-"
        u == IF s # <<>> /\ s[1] \in {"-", "+"} THEN Tail(s) ELSE s
        ip == LeadingDigits(u)
        rest == SubSeq(u, Len(ip) + 1, Len(u))
        fp == IF rest # <<>> /\ rest[1] = "." THEN Tail(rest) ELSE <<>>
        wellFormed ==
            /\ \/ rest = <<>>
               \/ rest[1] = "." /\ AllDigits(fp)
            /\ Len(ip) + Len(fp) > 0
        mag == StrToNat(ip)
    IN IF wellFormed THEN SomeInt(IF neg THEN -mag ELSE mag) ELSE NoInt

IntOfFloat(v) ==
    CASE v.t = "int" -> SomeInt(v.n)
      [] v.t = "float" -> SomeInt(v.n)
      [] v.t = "str" -> IntOfFloatStr(v.s)
      [] OTHER -> NoInt

\* sa_int = int(float(sa)) if sa is not None else None, None on any exception
ParseTs(v) ==
    IF v.t = "none" THEN None_
    ELSE LET r == IntOfFloat(v) IN IF r.ok THEN I(r.n) ELSE None_

----------------------------------------------------------------------------
(* Constants of the program                                                *)

\* datetime(2023, 9, 1) read as a wall clock at offset 0, in epoch seconds
Sep1WallClock == 1693526400
\* utcoffset() of pytz's Asia/Tokyo object when it is passed as tzinfo= to the
\* datetime constructor (not localize()d): the zone's first entry, LMT+9:19:00
JST_tzinfo_offset == 33540
\* utcoffset() that datetime.fromtimestamp(ts, JST) gives for a 2023 instant
JST_offset == 32400
\* CUTOFF_DATE = datetime(2023, 9, 1, tzinfo=JST), as an instant
CUTOFF_DATE == Sep1WallClock - JST_tzinfo_offset
\* the instant 2023-09-01 00:00 at UTC+9 (epoch second 1693494000)
Sep1JstEpoch == Sep1WallClock - JST_offset

\* datetime.fromtimestamp(sa_int, JST) >= CUTOFF_DATE: aware datetimes compare
\* as instants
AtOrAfterCutoff(sa_int) == sa_int >= CUTOFF_DATE

----------------------------------------------------------------------------
(* build_combined_event_list                                               *)

\* the dict `combined` is the sequence of its items [k, v] in insertion order
HasKey(c, k) == \E i \in 1..Len(c) : c[i].k = k
\* combined[k] = v: a present key keeps its place, a new one goes last
DictSet(c, k, v) ==
    IF HasKey(c, k)
    THEN [i \in 1..Len(c) |-> IF c[i].k = k THEN [k |-> k, v |-> v] ELSE c[i]]
    ELSE Append(c, [k |-> k, v |-> v])

ApiEventId(e) ==
    normalize_event_id_val(
        Or(Or(Get(e, "event_id"), Get(e, "id")), Get(e, "event_id")))
BackupEventId(e) ==
    normalize_event_id_val(Or(Get(e, "event_id"), Get(e, "id")))

\* one pass of `for e in api_events`
AddApiEvent(c, e) ==
    LET eid == ApiEventId(e) IN
    IF eid = None_ THEN c
    ELSE DictSet(c, eid.s, Put(e, "event_id", eid))

\* mutant: the backup loop without its `if eid not in combined`
AddBackupEvent_Overwrite(c, e) ==
    LET eid == BackupEventId(e) IN
    IF eid = None_ THEN c ELSE DictSet(c, eid.s, e)

\* one pass of `for e in backup_events`
AddBackupEvent(c, e) ==
    LET eid == BackupEventId(e) IN
    IF eid = None_ THEN c
    ELSE IF ~HasKey(c, eid.s) THEN DictSet(c, eid.s, e)
    ELSE c

RECURSIVE AddApiEvents(_, _)
AddApiEvents(c, es) ==
    IF es = <<>> THEN c ELSE AddApiEvents(AddApiEvent(c, Head(es)), Tail(es))

RECURSIVE AddBackupEvents(_, _)
AddBackupEvents(c, es) ==
    IF es = <<>> THEN c ELSE AddBackupEvents(AddBackupEvent(c, Head(es)), Tail(es))

StartField(e) ==
    Or(Or(Or(Or(Get(e, "started_at"), Get(e, "start_at")), Get(e, "startedAt")),
          Get(e, "start")), None_)
EndField(e) ==
    Or(Or(Or(Or(Get(e, "ended_at"), Get(e, "end_at")), Get(e, "endedAt")),
          Get(e, "end")), None_)

\* e['_started_at'] = sa_int; e['_ended_at'] = ea_int
AttachTimestamps(e) ==
    Put(Put(e, "_started_at", ParseTs(StartField(e))),
        "_ended_at", ParseTs(EndField(e)))

\* include only events with started_at >= cutoff
Retained(e) ==
    LET sa_int == Get(e, "_started_at") IN
    sa_int # None_ /\ AtOrAfterCutoff(sa_int.n)

RECURSIVE FilterEvents(_)
FilterEvents(c) ==
    IF c = <<>> THEN <<>>
    ELSE LET e == AttachTimestamps(Head(c).v) IN
         (IF Retained(e) THEN <<e>> ELSE <<>>) \o FilterEvents(Tail(c))

\* key=lambda x: x.get('_started_at') or 0
SortKey(e) == LET v == Or(Get(e, "_started_at"), I(0)) IN v.n

\* mutant: a descending sort that is not stable (equal keys are reversed)
RECURSIVE InsertDesc_Unstable(_, _)
InsertDesc_Unstable(sorted, e) ==
    IF sorted = <<>> THEN <<e>>
    ELSE IF SortKey(Head(sorted)) > SortKey(e)
         THEN <<Head(sorted)>> \o InsertDesc_Unstable(Tail(sorted), e)
         ELSE <<e>> \o sorted

\* where list.sort(reverse=True) puts e in a list already sorted: after every
\* element whose key is >= its own (equal keys keep their order)
RECURSIVE InsertDesc(_, _)
InsertDesc(sorted, e) ==
    IF sorted = <<>> THEN <<e>>
    ELSE IF SortKey(Head(sorted)) >= SortKey(e)
         THEN <<Head(sorted)>> \o InsertDesc(Tail(sorted), e)
         ELSE <<e>> \o sorted

RECURSIVE SortDesc(_)
SortDesc(l) ==
    IF l = <<>> THEN <<>>
    ELSE InsertDesc(SortDesc(SubSeq(l, 1, Len(l) - 1)), l[Len(l)])

----------------------------------------------------------------------------
(* get_events_from_api                                                     *)

\* statuses=(1,3,4)
statuses == <<1, 3, 4>>
\* if page > 50:  # safety cap
PageCap == 50

MaxPageLen == 1

\* the records of a non-empty page, named by where they came from
PageEvents(st, pg) == [k \in 1..page_len |-> <<st, pg, k>>]

\* mutant: the safety cap tested one page early
CapReached_OffByOne(pg) == pg >= PageCap

\* if page > 50: break
CapReached(pg) == pg > PageCap

\* what the history keeps of a request: its status and page, and whether it
\* gave records ("events"), ended the paging of its status ("stop") or raised
\* an exception that left the function ("raise")
Request(result) == [status |-> statuses[status_idx], page |-> page, result |-> result]

\* `break`: the while loop of this status ends; the for loop takes the next
\* status with page = 1, or the function returns all_events
Break ==
    IF status_idx = Len(statuses)
    THEN /\ apc' = "returned"
         /\ UNCHANGED <<status_idx, page>>
    ELSE /\ apc' = "paging"
         /\ status_idx' = status_idx + 1
         /\ page' = 1

\* a failed or empty page: `break` with all_events as it is
StopPaging ==
    /\ requests' = Append(requests, Request("stop"))
    /\ Break
    /\ UNCHANGED <<all_events, page_len, notApi>>

\* an exception no except clause of the loop names leaves the function
Propagate ==
    /\ requests' = Append(requests, Request("raise"))
    /\ apc' = "raised"
    /\ UNCHANGED <<status_idx, page, all_events, page_len, notApi>>

\* the page has records: extend, page += 1, then the safety cap
ApiPageWithEvents ==
    /\ apc = "paging"
    /\ requests' = Append(requests, Request("events"))
    /\ all_events' = all_events \o PageEvents(statuses[status_idx], page)
    /\ IF CapReached(page + 1)
       THEN Break
       ELSE /\ page' = page + 1
            /\ UNCHANGED <<apc, status_idx>>
    /\ UNCHANGED <<page_len, notApi>>

\* d.get('events') or d.get('event_list') or [] is empty: if not page_events: break
ApiPageEmpty ==
    /\ apc = "paging"
    /\ StopPaging

\* requests.get raises (connection error, timeout): except RequestException: break
ApiRequestFails ==
    /\ apc = "paging"
    /\ StopPaging

\* r.raise_for_status() raises HTTPError, a RequestException: break
ApiHttpError ==
    /\ apc = "paging"
    /\ StopPaging

\* r.json() raises JSONDecodeError, a ValueError: break
ApiBodyNotJson ==
    /\ apc = "paging"
    /\ StopPaging

\* r.json() is a list, a string, a number or null: d.get raises AttributeError,
\* which is neither a RequestException nor a ValueError
ApiJsonNotObject ==
    /\ apc = "paging"
    /\ Propagate

\* 'events' is a number or true: all_events.extend raises TypeError
ApiEventsNotIterable ==
    /\ apc = "paging"
    /\ Propagate

InitApi ==
    /\ apc = "paging"
    /\ status_idx = 1
    /\ page = 1
    /\ all_events = <<>>
    /\ page_len \in 1..MaxPageLen
    /\ requests = <<>>
    /\ MergeIdle /\ ProfileIdle /\ RankIdle /\ KeyIdle

NextApi ==
    \/ ApiPageWithEvents
    \/ ApiPageEmpty
    \/ ApiRequestFails
    \/ ApiHttpError
    \/ ApiBodyNotJson
    \/ ApiJsonNotObject
    \/ ApiEventsNotIterable

SpecApi == InitApi /\ [][NextApi]_vars

----------------------------------------------------------------------------
(* Claims about get_events_from_api                                        *)

StatusSet == {statuses[i] : i \in 1..Len(statuses)}
StatusIndex == [st \in StatusSet |-> CHOOSE i \in 1..Len(statuses) : statuses[i] = st]
IndexOfStatus(st) == StatusIndex[st]
RequestsOf(st) == LET Test(r) == r.status = st IN SelectSeq(requests, Test)
\* the records of the pages that had some, in the order of the requests
RecordsOf(reqs) ==
    LET Test(r) == r.result = "events"
        ev == SelectSeq(reqs, Test)
    IN [i \in 1..(page_len * Len(ev)) |->
           LET r == ev[((i - 1) \div page_len) + 1]
           IN <<r.status, r.page, ((i - 1) % page_len) + 1>>]

\* C5: the call never raises, and when it has returned every status of the
\* statuses tuple was queried from page 1, whatever the earlier statuses met,
\* with the records of the earlier pages kept
C5_NeverRaisesIsolatesStatuses ==
    /\ apc # "raised"
    /\ apc = "returned" =>
          /\ \A st \in StatusSet :
                RequestsOf(st) # <<>> /\ RequestsOf(st)[1].page = 1
          /\ all_events = RecordsOf(requests)

\* C10: the requests of a call are, status by status in the order of the
\* tuple, the pages 1, 2, 3, ... of the status with none skipped or repeated:
\* a request for the next page follows only a page that had records, the
\* first page of the next status follows only a page that gave nothing or
\* failed, or page 50; so no status gets more than 50 requests and every call
\* ends after at most 50 requests per status; and the list returned is the
\* records of the non-empty pages in the order they were fetched
C10_PagingBounded ==
    /\ \A i \in 1..Len(requests) :
          LET r == requests[i] IN
          /\ r.page \in 1..50
          /\ IF i = 1
             THEN r.status = statuses[1] /\ r.page = 1
             ELSE LET q == requests[i - 1] IN
                  \/ /\ r.status = q.status
                     /\ r.page = q.page + 1
                     /\ q.result = "events"
                  \/ /\ IndexOfStatus(r.status) = IndexOfStatus(q.status) + 1
                     /\ r.page = 1
                     /\ q.result = "stop" \/ (q.result = "events" /\ q.page = 50)
    /\ \A st \in StatusSet :
          Cardinality({i \in 1..Len(requests) : requests[i].status = st}) <= 50
    /\ apc = "paging" =>
          \* the next request is the one the sequence is waiting for
          IF requests = <<>> THEN status_idx = 1 /\ page = 1
          ELSE LET q == requests[Len(requests)] IN
               IF q.result = "events" /\ q.page < 50
               THEN statuses[status_idx] = q.status /\ page = q.page + 1
               ELSE status_idx = IndexOfStatus(q.status) + 1 /\ page = 1
    /\ apc = "returned" =>
          LET q == requests[Len(requests)] IN
          /\ q.status = statuses[Len(statuses)]
          /\ q.result = "stop" \/ (q.result = "events" /\ q.page = 50)
          /\ all_events = RecordsOf(requests)

\* a call that returned after one status ran into the cap on an endpoint that
\* never gave an empty page, and another status was stopped on a later page
C10_Witness ==
    /\ apc = "returned"
    /\ \E st \in StatusSet :
          /\ Len(RequestsOf(st)) = 50
          /\ RequestsOf(st)[50].result = "events"
    /\ \E st \in StatusSet :
          LET rs == RequestsOf(st) IN
          /\ Len(rs) \in 2..49
          /\ rs[Len(rs)].result = "stop"
    /\ Len(all_events) > 50

----------------------------------------------------------------------------
(* Inputs of build_combined_event_list                                     *)

MaxApi == 2
MaxBackup == 2

SeqsUpTo(pool, k) == UNION {[1..m -> pool] : m \in 0..k}

\* a start instant well after the cutoff, and a later one
TsLate == Sep1JstEpoch + 5506000
TsLater == TsLate + 1000000

\* events as the search API gives them (JSON: numbers for ids and times)
ApiPool ==
    { ("event_id" :> I(10)) @@ ("event_name" :> S(<<"a">>))
          @@ ("started_at" :> I(TsLate)) @@ ("ended_at" :> I(TsLater)),
      \* the same id again, other field values
      ("event_id" :> I(10)) @@ ("event_name" :> S(<<"b">>))
          @@ ("started_at" :> I(TsLater)),
      \* id under the alias key; starts exactly at 2023-09-01 00:00 UTC+9
      ("id" :> I(11)) @@ ("event_name" :> S(<<"c">>))
          @@ ("started_at" :> I(Sep1JstEpoch)),
      \* starts one second before 2023-09-01 00:00 UTC+9
      ("event_id" :> F(12, <<"0">>)) @@ ("event_name" :> S(<<"d">>))
          @@ ("started_at" :> I(Sep1JstEpoch - 1)),
      \* same start as the first one
      ("event_id" :> I(13)) @@ ("event_name" :> S(<<"e">>))
          @@ ("start_at" :> F(TsLate, <<"0">>)),
      \* no id; no start
      ("event_id" :> None_) @@ ("event_name" :> S(<<"f">>)) }

\* rows of the backup CSV (read with dtype=str: every cell is a string)
BackupPool ==
    { ("event_id" :> S(<<"1", "0", ".", "0">>)) @@ ("event_name" :> S(<<"x">>))
          @@ ("started_at" :> S(NatToStr(1000000000))),
      ("event_id" :> S(<<"1", "1">>)) @@ ("event_name" :> S(<<"y">>))
          @@ ("started_at" :> S(NatToStr(TsLater))),
      ("event_id" :> S(<<"1", "5", ".", "0">>)) @@ ("event_name" :> S(<<"z">>))
          @@ ("started_at" :> S(NatToStr(TsLate) \o <<".", "0">>)),
      ("id" :> S(<<" ", "1", "6">>)) @@ ("event_name" :> S(<<"v">>))
          @@ ("start_at" :> S(NatToStr(CUTOFF_DATE - 1))),
      ("event_id" :> S(<<"1", "8">>)) @@ ("event_name" :> S(<<"w">>))
          @@ ("started_at" :> S(<<"a", "b", "c">>)) }

InitMerge ==
    /\ mpc = "start"
    /\ api_events \in SeqsUpTo(ApiPool, MaxApi)
    /\ backup_events \in SeqsUpTo(BackupPool, MaxBackup)
    /\ combined = <<>>
    /\ filtered = <<>>
    /\ ApiIdle /\ ProfileIdle /\ RankIdle /\ KeyIdle

\* lines 98-105: Add API events first (take precedence)
MergeApi ==
    /\ mpc = "start"
    /\ combined' = AddApiEvents(<<>>, api_events)
    /\ mpc' = "api_merged"
    /\ UNCHANGED <<notMerge, api_events, backup_events, filtered>>

\* lines 107-113: Add backup events if id not present
MergeBackup ==
    /\ mpc = "api_merged"
    /\ combined' = AddBackupEvents(combined, backup_events)
    /\ mpc' = "merged"
    /\ UNCHANGED <<notMerge, api_events, backup_events, filtered>>

\* lines 116-143: normalise the timestamps, filter on the cutoff, sort, return
FilterSortReturn ==
    /\ mpc = "merged"
    /\ filtered' = SortDesc(FilterEvents(combined))
    /\ mpc' = "done"
    /\ UNCHANGED <<notMerge, api_events, backup_events, combined>>

NextMerge == MergeApi \/ MergeBackup \/ FilterSortReturn

SpecMerge == InitMerge /\ [][NextMerge]_vars

----------------------------------------------------------------------------
(* Claims about build_combined_event_list                                  *)

Merged == mpc \in {"merged", "done"}
ApiIds == {ApiEventId(api_events[i]) : i \in 1..Len(api_events)} \ {None_}
BackupIds == {BackupEventId(backup_events[i]) : i \in 1..Len(backup_events)} \ {None_}

\* the API record the merge keeps for id: the last one of the API list
LastApiRecord(id) ==
    LET i == CHOOSE i \in 1..Len(api_events) :
                 /\ ApiEventId(api_events[i]) = id
                 /\ \A j \in (i + 1)..Len(api_events) : ApiEventId(api_events[j]) # id
    IN Put(api_events[i], "event_id", id)
FirstBackupRecord(id) ==
    backup_events[CHOOSE i \in 1..Len(backup_events) :
                      /\ BackupEventId(backup_events[i]) = id
                      /\ \A j \in 1..(i - 1) : BackupEventId(backup_events[j]) # id]

\* the normalized id of a record of the output
RecordId(r) == normalize_event_id_val(Or(Get(r, "event_id"), Get(r, "id")))

\* C1: once both sources are merged, the map holds exactly one record per
\* normalized id; for an id the API list has, it is the API record (the last
\* API record of that id, fields unchanged but for the normalized event_id),
\* also when the backup has the id too; a backup record is the map's record
\* only for an id the API list does not have.  The returned list holds, for an
\* id both sources have, at most one record, and it is the API record.
C1_MergePrecedence ==
    Merged =>
        /\ \A i, j \in 1..Len(combined) : combined[i].k = combined[j].k => i = j
        /\ {S(combined[i].k) : i \in 1..Len(combined)} = ApiIds \cup BackupIds
        /\ \A i \in 1..Len(combined) :
              LET id == S(combined[i].k) IN
              IF id \in ApiIds
              THEN combined[i].v = LastApiRecord(id)
              ELSE combined[i].v = FirstBackupRecord(id)
        /\ mpc = "done" =>
              \A i, j \in 1..Len(filtered) :
                 /\ RecordId(filtered[i]) = RecordId(filtered[j]) => i = j
                 /\ RecordId(filtered[i]) \in ApiIds =>
                       filtered[i] = AttachTimestamps(LastApiRecord(RecordId(filtered[i])))

\* an id of both sources whose API record and backup record differ is in the
\* returned list
C1_Witness ==
    /\ mpc = "done"
    /\ \E i \in 1..Len(filtered) :
          LET id == RecordId(filtered[i]) IN
          /\ id \in ApiIds \cap BackupIds
          /\ Get(FirstBackupRecord(id), "event_name") # Get(filtered[i], "event_name")
          /\ Get(filtered[i], "event_name") = Get(LastApiRecord(id), "event_name")

\* C2: every record of the returned list has the canonical normalized string
\* as its event_id field, and no two records have the same event_id
C2_EventIdCanonicalUnique ==
    mpc = "done" =>
        /\ \A i \in 1..Len(filtered) :
              /\ Get(filtered[i], "event_id").t = "str"
              /\ Get(filtered[i], "event_id")
                     = normalize_event_id_val(Get(filtered[i], "event_id"))
        /\ \A i, j \in 1..Len(filtered) :
              Get(filtered[i], "event_id") = Get(filtered[j], "event_id") => i = j

\* C3: a merged event is in the returned list if and only if its start
\* timestamp parses to an integer at or after 2023-09-01 00:00 UTC+9
InOutput(e) == \E i \in 1..Len(filtered) : filtered[i] = AttachTimestamps(e)
C3_CutoffFilter ==
    mpc = "done" =>
        \A i \in 1..Len(combined) :
            LET sa_int == ParseTs(StartField(combined[i].v)) IN
            InOutput(combined[i].v) <=> (sa_int # None_ /\ sa_int.n >= Sep1JstEpoch)

\* C4: the returned list is in descending order of _started_at, and records
\* of equal _started_at are in the order their ids were first inserted: API
\* events in API order, then backup-only events in backup order
InsertionPos(id) ==
    IF id \in ApiIds
    THEN CHOOSE i \in 1..Len(api_events) :
            /\ ApiEventId(api_events[i]) = id
            /\ \A j \in 1..(i - 1) : ApiEventId(api_events[j]) # id
    ELSE Len(api_events)
         + (CHOOSE i \in 1..Len(backup_events) :
               /\ BackupEventId(backup_events[i]) = id
               /\ \A j \in 1..(i - 1) : BackupEventId(backup_events[j]) # id)

C4_SortedDescStable ==
    mpc = "done" =>
        \A i, j \in 1..Len(filtered) :
            i < j =>
                LET a == Get(filtered[i], "_started_at")
                    b == Get(filtered[j], "_started_at")
                IN /\ a.t = "int" /\ b.t = "int"
                   /\ \/ a.n > b.n
                      \/ /\ a.n = b.n
                         /\ InsertionPos(RecordId(filtered[i]))
                               < InsertionPos(RecordId(filtered[j]))

\* three records come out, two of them with the same start, from inputs that
\* were not in descending order
C4_Witness ==
    /\ mpc = "done"
    /\ Len(filtered) >= 3
    /\ \E i \in 1..(Len(filtered) - 1) :
          Get(filtered[i], "_started_at") = Get(filtered[i + 1], "_started_at")
    /\ \E i, j \in 1..Len(combined) :
          /\ i < j
          /\ InOutput(combined[i].v) /\ InOutput(combined[j].v)
          /\ SortKey(AttachTimestamps(combined[i].v))
                 < SortKey(AttachTimestamps(combined[j].v))

----------------------------------------------------------------------------
(* fetch_room_profile                                                      *)

\* int(s) for a string: optional sign and digits, blanks around them allowed
IntOfStr(s0) ==
    LET s == Strip(s0)
        neg == s # <<>> /\ s[1] = "-"
        u == IF s # <<>> /\ s[1] \in {"-", "+"} THEN Tail(s) ELSE s
    IN IF u # <<>> /\ AllDigits(u)
       THEN SomeInt(IF neg THEN -StrToNat(u) ELSE StrToNat(u))
       ELSE NoInt

\* int(x); NoInt when it raises ValueError or TypeError
PyInt(v) ==
    CASE v.t = "int" -> SomeInt(v.n)
      [] v.t = "float" -> SomeInt(v.n)
      [] v.t = "str" -> IntOfStr(v.s)
      [] OTHER -> NoInt

\* the answers of the profile endpoint
NetworkError == [kind |-> "network_error", isdict |-> FALSE, d |-> <<>>]
HttpError == [kind |-> "http_error", isdict |-> FALSE, d |-> <<>>]
NotJson == [kind |-> "not_json", isdict |-> FALSE, d |-> <<>>]
\* a JSON body that is a list, a string, a number or null
JsonNotObject == [kind |-> "json", isdict |-> FALSE, d |-> <<>>]
JsonObject(d) == [kind |-> "json", isdict |-> TRUE, d |-> d]

RoomPrefix == <<"r", "o", "o", "m", "_">>

\* lines 207-212: the fields as extracted, before the casts
ExtractName(d) ==
    Or(Or(Or(Get(d, "room_name"), Get(d, "name")), Get(d, "performer_name")), S(<<>>))
ExtractLevel(d) ==
    Or(Or(Or(Get(d, "room_level"), Get(d, "level")), Get(d, "lv")), None_)
ExtractRank(d) ==
    Or(Or(Or(Or(Get(d, "show_rank_subdivided"), Get(d, "show_rank")),
             Get(d, "show_rank_sub")), Get(d, "show_rank_name")), None_)
ExtractFollower(d) ==
    Or(Or(Or(Get(d, "follower_num"), Get(d, "follower_count")), Get(d, "followers")),
       None_)
ExtractLive(d) ==
    Or(Or(Get(d, "live_continuous_days"), Get(d, "live_continuous")), None_)

\* int(x) if x is not None else None
CastOk(v) == v = None_ \/ PyInt(v).ok
Cast(v) == IF v = None_ THEN None_ ELSE I(PyInt(v).n)

\* lines 223-230: the record of the except branch
FallbackProfile(rid) ==
    [room_name |-> S(RoomPrefix \o PyStr(rid)),
     room_level |-> None_,
     show_rank |-> None_,
     follower_num |-> None_,
     live_continuous_days |-> None_,
     room_id |-> S(PyStr(rid))]

\* lines 203-220: the try block; exc names the exception it ends with, if any
TryBlock(rid, resp) ==
    IF resp.kind = "network_error" THEN [exc |-> "ConnectionError", value |-> <<>>]
    ELSE IF resp.kind = "http_error" THEN [exc |-> "HTTPError", value |-> <<>>]
    ELSE IF resp.kind = "not_json" THEN [exc |-> "JSONDecodeError", value |-> <<>>]
    ELSE IF ~resp.isdict THEN [exc |-> "AttributeError", value |-> <<>>]
    ELSE LET d == resp.d
             room_level == ExtractLevel(d)
             follower == ExtractFollower(d)
             live_continuous == ExtractLive(d)
         IN IF ~(CastOk(room_level) /\ CastOk(follower) /\ CastOk(live_continuous))
            THEN [exc |-> "ValueError", value |-> <<>>]
            ELSE [exc |-> "none",
                  value |-> [room_name |-> ExtractName(d),
                             room_level |-> Cast(room_level),
                             show_rank |-> ExtractRank(d),
                             follower_num |-> Cast(follower),
                             live_continuous_days |-> Cast(live_continuous),
                             room_id |-> S(PyStr(rid))]]

\* mutant: a handler that names the request errors only, as the paging loop of
\* get_events_from_api does
Caught_RequestErrorsOnly(exc) == exc \in {"ConnectionError", "HTTPError", "JSONDecodeError"}

\* except Exception:
Caught(exc) ==
    exc \in {"ConnectionError", "HTTPError", "JSONDecodeError", "AttributeError",
             "ValueError"}

\* the whole function: what it returns, or that an exception left it
fetch_room_profile(rid, resp) ==
    LET r == TryBlock(rid, resp) IN
    IF r.exc = "none" THEN [raised |-> FALSE, value |-> r.value]
    ELSE IF Caught(r.exc) THEN [raised |-> FALSE, value |-> FallbackProfile(rid)]
    ELSE [raised |-> TRUE, value |-> <<>>]

\* answers of the endpoint: one choice per attribute
Absent == [x \in {} |-> None_]
NameChoices ==
    { Absent,
      "room_name" :> S(<<"A", "l">>),
      ("room_name" :> S(<<>>)) @@ ("performer_name" :> S(<<"B", "o">>)) }
LevelChoices ==
    { Absent,
      "room_level" :> I(25),
      "level" :> S(<<"3", "0">>),
      "room_level" :> S(<<"N", "/", "A">>),
      "room_level" :> I(0) }
RankChoices ==
    { Absent,
      "show_rank_subdivided" :> S(<<"S", "4">>),
      ("show_rank_subdivided" :> None_) @@ ("show_rank" :> S(<<"A", "1">>)) }
FollowerChoices ==
    { Absent,
      "follower_num" :> I(1200),
      "follower_count" :> S(<<"1", ".", "5", "k">>),
      "follower_num" :> Compound }
LiveChoices ==
    { Absent,
      "live_continuous_days" :> I(3),
      "live_continuous_days" :> S(<<"3", ".", "0">>) }

ProfileObjects ==
    { a @@ b @@ c @@ f @@ g :
        a \in NameChoices, b \in LevelChoices, c \in RankChoices,
        f \in FollowerChoices, g \in LiveChoices }

ProfileResponses ==
    {NetworkError, HttpError, NotJson, JsonNotObject}
        \cup {JsonObject(d) : d \in ProfileObjects}

RoomIds == {S(<<"1", "0", "1">>), I(102)}

InitProfile ==
    /\ ppc = "call"
    /\ room_id \in RoomIds
    /\ response \in ProfileResponses
    /\ profile = <<>>
    /\ MergeIdle /\ ApiIdle /\ RankIdle /\ KeyIdle

\* the call ends: with the value of a return statement, or with an exception
\* that no handler caught
ProfileCallEnds ==
    LET r == fetch_room_profile(room_id, response) IN
    /\ ppc' = IF r.raised THEN "raised" ELSE "returned"
    /\ profile' = r.value
    /\ UNCHANGED <<room_id, response, notProfile>>

\* requests.get or raise_for_status raises
ProfileRequestFails ==
    /\ ppc = "call"
    /\ response.kind \in {"network_error", "http_error"}
    /\ ProfileCallEnds

\* the body is not JSON, or is JSON but not an object
ProfileBodyUnusable ==
    /\ ppc = "call"
    /\ response.kind = "not_json" \/ (response.kind = "json" /\ ~response.isdict)
    /\ ProfileCallEnds

\* the body is a JSON object: extraction and casts
ProfileBodyParsed ==
    /\ ppc = "call"
    /\ response.kind = "json" /\ response.isdict
    /\ ProfileCallEnds

NextProfile == ProfileRequestFails \/ ProfileBodyUnusable \/ ProfileBodyParsed

SpecProfile == InitProfile /\ [][NextProfile]_vars

----------------------------------------------------------------------------
(* Claims about fetch_room_profile                                         *)

ProfileKeys ==
    {"room_name", "room_level", "show_rank", "follower_num", "live_continuous_days",
     "room_id"}
FetchOrParseFailed == response.kind \in {"network_error", "http_error", "not_json"}

\* C6: the call never raises; it returns one record, with the six fields,
\* whose room_id is str(room_id); when the fetch or the JSON parse failed the
\* record has room_name "room_" + room_id and null in the four other fields
C6_ProfileTotalFallback ==
    /\ ppc # "raised"
    /\ ppc = "returned" =>
          /\ DOMAIN profile = ProfileKeys
          /\ profile.room_id = S(PyStr(room_id))
          /\ FetchOrParseFailed =>
                /\ profile.room_name = S(<<"r", "o", "o", "m", "_">> \o PyStr(room_id))
                /\ profile.room_level = None_
                /\ profile.show_rank = None_
                /\ profile.follower_num = None_
                /\ profile.live_continuous_days = None_

\* a call whose request failed has returned
C6_Witness ==
    /\ ppc = "returned"
    /\ FetchOrParseFailed
    /\ profile.room_name.s = <<"r", "o", "o", "m", "_", "1", "0", "2">>

\* C7: when the profile was fetched and parsed, a numeric field that cannot be
\* cast to an integer is null in the record returned and nothing else is lost:
\* the record has the fetched room_name and rank label, and every numeric
\* field that does cast has its integer value
NumericOrNull(v) == IF v # None_ /\ PyInt(v).ok THEN I(PyInt(v).n) ELSE None_
C7_CastFailureIsPerField ==
    (ppc = "returned" /\ response.kind = "json" /\ response.isdict) =>
        /\ profile.room_name = ExtractName(response.d)
        /\ profile.show_rank = ExtractRank(response.d)
        /\ profile.room_level = NumericOrNull(ExtractLevel(response.d))
        /\ profile.follower_num = NumericOrNull(ExtractFollower(response.d))
        /\ profile.live_continuous_days = NumericOrNull(ExtractLive(response.d))

----------------------------------------------------------------------------
(* rank_key                                                                *)

LowerCase ==
    <<"a", "b", "c", "d", "e", "f", "g", "h", "i", "j", "k", "l", "m",
      "n", "o", "p", "q", "r", "s", "t", "u", "v", "w", "x", "y", "z">>
UpperCase ==
    <<"A", "B", "C", "D", "E", "F", "G", "H", "I", "J", "K", "L", "M",
      "N", "O", "P", "Q", "R", "S", "T", "U", "V", "W", "X", "Y", "Z">>
IsLetter(c) == \E i \in 1..26 : LowerCase[i] = c \/ UpperCase[i] = c
UpperChar(c) ==
    IF \E i \in 1..26 : LowerCase[i] = c
    THEN UpperCase[CHOOSE i \in 1..26 : LowerCase[i] = c]
    ELSE c
\* str.upper()
Upper(s) == [i \in 1..Len(s) |-> UpperChar(s[i])]

\* group 1 of ^([A-Za-z]+)(\d*)
RECURSIVE LeadingLetters(_)
LeadingLetters(s) ==
    IF s # <<>> /\ IsLetter(s[1]) THEN <<s[1]>> \o LeadingLetters(Tail(s)) ELSE <<>>

\* re.findall(r'\d+', s)[0], or <<>> when s has no digit
RECURSIVE FirstDigitRun(_)
FirstDigitRun(s) ==
    IF s = <<>> THEN <<>>
    ELSE IF IsDigit(s[1]) THEN LeadingDigits(s)
    ELSE FirstDigitRun(Tail(s))

\* mutant: the scores of S and A exchanged
order_map_SwappedSA(a) ==
    CASE a = <<"S", "S">> -> 12
      [] a = <<"S">> -> 10
      [] a = <<"A">> -> 11
      [] a = <<"B">> -> 9
      [] a = <<"C">> -> 8
      [] a = <<"D">> -> 7
      [] a = <<"E">> -> 6
      [] OTHER -> 5

\* order_map.get(a, 5)
order_map(a) ==
    CASE a = <<"S", "S">> -> 12
      [] a = <<"S">> -> 11
      [] a = <<"A">> -> 10
      [] a = <<"B">> -> 9
      [] a = <<"C">> -> 8
      [] a = <<"D">> -> 7
      [] a = <<"E">> -> 6
      [] OTHER -> 5

\* the tuple rank_key returns, as a sequence of integers
rank_key(sr) ==
    IF ~Truthy(sr) THEN <<-1>>
    ELSE LET s == PyStr(sr)
             g1 == LeadingLetters(s)
             g2 == LeadingDigits(SubSeq(s, Len(g1) + 1, Len(s)))
             nums == FirstDigitRun(s)
         IN IF g1 # <<>>
            THEN <<order_map(Upper(g1)), IF g2 # <<>> THEN StrToNat(g2) ELSE 0>>
            ELSE IF nums # <<>> THEN <<5, StrToNat(nums)>>
            ELSE <<0>>

\* Python's order of tuples of integers
RECURSIVE KeyLess(_, _)
KeyLess(a, b) ==
    IF a = <<>> THEN b # <<>>
    ELSE IF b = <<>> THEN FALSE
    ELSE IF Head(a) # Head(b) THEN Head(a) < Head(b)
    ELSE KeyLess(Tail(a), Tail(b))

MaxLabelLen == 2
LabelChars == {"S", "a", "4", "0", "-"}
LabelPool == {None_} \cup {S(s) : s \in SeqsUpTo(LabelChars, MaxLabelLen)}

InitKey ==
    /\ kpc = "start"
    /\ labels \in LabelPool \X LabelPool
    /\ keys = <<>>
    /\ MergeIdle /\ ApiIdle /\ ProfileIdle /\ RankIdle

\* prof_df['show_rank'].apply(rank_key), on two labels
ApplyRankKey ==
    /\ kpc = "start"
    /\ keys' = <<rank_key(labels[1]), rank_key(labels[2])>>
    /\ kpc' = "done"
    /\ UNCHANGED <<labels, notKey>>

NextKey == ApplyRankKey

SpecKey == InitKey /\ [][NextKey]_vars

----------------------------------------------------------------------------
(* Claims about rank_key                                                   *)

KeyGreater(a, b) == KeyLess(b, a)
IsKey(k) == Len(k) \in {1, 2} /\ \A i \in 1..Len(k) : k[i] \in Int

\* the claim's reading of a label
LabelAbsent(l) == l = None_ \/ l = S(<<>>)
LabelLetters(l) == IF LabelAbsent(l) THEN <<>> ELSE Upper(LeadingLetters(l.s))
LabelSuffix(l) ==
    LET d == LeadingDigits(SubSeq(l.s, Len(LeadingLetters(l.s)) + 1, Len(l.s)))
    IN IF d = <<>> THEN 0 ELSE StrToNat(d)
LabelLettered(l) == LabelLetters(l) # <<>>
LabelHasDigit(l) == ~LabelAbsent(l) /\ \E i \in 1..Len(l.s) : IsDigit(l.s[i])
LabelMalformed(l) == ~LabelAbsent(l) /\ ~LabelLettered(l) /\ ~LabelHasDigit(l)
\* SS:12 > S:11 > A:10 > B:9 > C:8 > D:7 > E:6 > any other letters:5
TableScore(a) ==
    LET table == <<<<"E">>, <<"D">>, <<"C">>, <<"B">>, <<"A">>, <<"S">>, <<"S", "S">>>>
    IN IF \E i \in 1..7 : table[i] = a
       THEN 5 + (CHOOSE i \in 1..7 : table[i] = a)
       ELSE 5

\* C9: rank_key gives every label a key, and any two keys are comparable (one
\* is less, or they are equal); an absent or empty label has the lowest key; a
\* label with a leading letter run is ordered by the table score of the run,
\* case-insensitively, and for equal scores by its numeric suffix (0 when
\* absent); a non-empty label with neither leading letters nor a digit is
\* above the absent labels only; and S4 > S1 > A10 > B1 > ""
C9_RankKeyTotalOrder ==
    /\ kpc = "done" =>
          LET la == labels[1]
              lb == labels[2]
              ka == keys[1]
              kb == keys[2]
          IN /\ IsKey(ka) /\ IsKey(kb)
             /\ \/ KeyLess(ka, kb) /\ ka # kb /\ ~KeyLess(kb, ka)
                \/ ka = kb /\ ~KeyLess(ka, kb) /\ ~KeyLess(kb, ka)
                \/ KeyLess(kb, ka) /\ ka # kb /\ ~KeyLess(ka, kb)
             /\ LabelAbsent(la) =>
                   IF LabelAbsent(lb) THEN ka = kb ELSE KeyLess(ka, kb)
             /\ (LabelLettered(la) /\ LabelLettered(lb)) =>
                   /\ TableScore(LabelLetters(la)) > TableScore(LabelLetters(lb))
                         => KeyGreater(ka, kb)
                   /\ TableScore(LabelLetters(la)) = TableScore(LabelLetters(lb)) =>
                         /\ LabelSuffix(la) > LabelSuffix(lb) => KeyGreater(ka, kb)
                         /\ LabelSuffix(la) = LabelSuffix(lb) => ka = kb
             /\ LabelMalformed(la) =>
                   /\ LabelAbsent(lb) => KeyGreater(ka, kb)
                   /\ LabelMalformed(lb) => ka = kb
                   /\ (~LabelAbsent(lb) /\ ~LabelMalformed(lb)) => KeyLess(ka, kb)
    /\ KeyGreater(rank_key(S(<<"S", "4">>)), rank_key(S(<<"S", "1">>)))
    /\ KeyGreater(rank_key(S(<<"S", "1">>)), rank_key(S(<<"A", "1", "0">>)))
    /\ KeyGreater(rank_key(S(<<"A", "1", "0">>)), rank_key(S(<<"B", "1">>)))
    /\ KeyGreater(rank_key(S(<<"B", "1">>)), rank_key(S(<<>>)))

\* the keys of two lower-case labels of the same letter score (that of A) and
\* different suffixes have been computed
C9_Witness ==
    /\ kpc = "done"
    /\ labels = <<S(<<"a", "4">>), S(<<"a">>)>>
    /\ keys[1][1] = 10
    /\ KeyGreater(keys[1], keys[2])

----------------------------------------------------------------------------
(* The "show participants" handler: room ids, profiles, ranking, top 10     *)

\* for rid in room_entries[:50]
ProfileCap == 50
\* prof_df.head(10)
TopN == 10

\* lines 295-303: the room id of one entry of rooms_raw, None_ when it is skipped
ExtractRoomId(r) ==
    IF ~r.isdict THEN None_
    ELSE LET d == r.d
             rid == Or(Or(Get(d, "room_id"), Get(d, "id")), None_)
         IN IF rid = None_ /\ "room" \in DOMAIN d /\ d["room"].t = "dict"
            THEN Or(Get(d["room"].s, "room_id"), Get(d["room"].s, "id"))
            ELSE rid

\* lines 293-304: room_entries before the dedupe
RECURSIVE ExtractAll(_)
ExtractAll(raw) ==
    IF raw = <<>> THEN <<>>
    ELSE LET rid == ExtractRoomId(Head(raw)) IN
         (IF rid = None_ THEN <<>> ELSE <<PyStr(rid)>>) \o ExtractAll(Tail(raw))

\* lines 306-307: dedupe, order-preserving: the first occurrences, in order
Dedupe(l) ==
    LET firsts == {i \in 1..Len(l) : \A j \in 1..(i - 1) : l[j] # l[i]}
        \* the k-th first occurrence
        Nth(k) == CHOOSE i \in firsts : Cardinality({j \in firsts : j <= i}) = k
    IN [k \in 1..Cardinality(firsts) |-> l[Nth(k)]]

FirstN(l, k) == SubSeq(l, 1, IF Len(l) < k THEN Len(l) ELSE k)

\* lines 339-343: a row of prof_df: the profile, room_level and follower_num
\* with -1 for null, and the rank_key column
Row(prof) ==
    [room_name |-> prof.room_name,
     room_level |-> IF prof.room_level = None_ THEN -1 ELSE prof.room_level.n,
     show_rank |-> prof.show_rank,
     follower_num |-> IF prof.follower_num = None_ THEN -1 ELSE prof.follower_num.n,
     live_continuous_days |-> prof.live_continuous_days,
     room_id |-> prof.room_id,
     rank_key |-> rank_key(prof.show_rank)]

\* the order of by=['rank_key','room_level','follower_num']
RowLess(a, b) ==
    IF a.rank_key # b.rank_key THEN KeyLess(a.rank_key, b.rank_key)
    ELSE IF a.room_level # b.room_level THEN a.room_level < b.room_level
    ELSE a.follower_num < b.follower_num

\* sort_values(ascending=[False, False, False]): descending, rows that are
\* equal on the three columns keep their order
RECURSIVE InsertRow(_, _)
InsertRow(sorted, e) ==
    IF sorted = <<>> THEN <<e>>
    ELSE IF RowLess(Head(sorted), e) THEN <<e>> \o sorted
    ELSE <<Head(sorted)>> \o InsertRow(Tail(sorted), e)

RECURSIVE SortRows(_)
SortRows(l) ==
    IF l = <<>> THEN <<>>
    ELSE InsertRow(SortRows(SubSeq(l, 1, Len(l) - 1)), l[Len(l)])

\* Inputs: a room list of k rooms, ordinary but for one, and their profiles
ExtraRooms == 2
RoomCounts == {0, 3, TopN + 1, ProfileCap} \cup {ProfileCap + x : x \in 1..ExtraRooms}
RoomIdStr(i) == NatToStr(100 + i)

\* the entry of room i in the room list: three shapes the handler reads
RawEntry(i) ==
    CASE i % 3 = 0 -> [isdict |-> TRUE, d |-> ("room_id" :> I(100 + i)) @@ ("rank" :> I(i))]
      [] i % 3 = 1 -> [isdict |-> TRUE, d |-> ("id" :> S(RoomIdStr(i)))]
      [] OTHER -> [isdict |-> TRUE,
                   d |-> ("room" :> Dict(("room_id" :> I(100 + i))))]
\* an entry that is not a dict, and a dict with no room id
NoiseEntries == <<[isdict |-> FALSE, d |-> <<>>], [isdict |-> TRUE, d |-> ("rank" :> I(1))]>>

\* the list of k rooms; with dup, room 1 comes again after room 2, in another
\* shape, among entries that name no room
RawList(k, dup) ==
    LET plain == [i \in 1..k |-> RawEntry(i)] IN
    IF dup /\ k >= 2
    THEN SubSeq(plain, 1, 2) \o NoiseEntries
             \o <<[isdict |-> TRUE, d |-> ("room_id" :> I(101))]>>
             \o SubSeq(plain, 3, k)
    ELSE plain

OrdinaryProfile(i) ==
    JsonObject(("room_name" :> S(<<"R">> \o RoomIdStr(i)))
                   @@ ("room_level" :> I(10 + (i % 4)))
                   @@ ("show_rank_subdivided" :> S(<<"B", "1">>))
                   @@ ("follower_num" :> I(100 + ((i * 7) % 5))))
SpecialLabels == {None_, S(<<"S", "S">>), S(<<"a", "1", "0">>), S(<<"-">>)}
SpecialProfile(i, label, defect) ==
    CASE defect = "fetch_fails" -> HttpError
      [] defect = "follower_uncastable" ->
            JsonObject(("room_name" :> S(<<"R">> \o RoomIdStr(i)))
                           @@ ("room_level" :> I(40))
                           @@ ("show_rank_subdivided" :> label)
                           @@ ("follower_num" :> S(<<"1", ".", "5", "k">>)))
      [] OTHER ->
            JsonObject(("room_name" :> S(<<"R">> \o RoomIdStr(i)))
                           @@ ("room_level" :> I(40))
                           @@ ("show_rank_subdivided" :> label))
Defects == {"none", "follower_uncastable", "fetch_fails"}

SiteOf(k, sp, label, defect) ==
    [rid \in {RoomIdStr(i) : i \in 1..k} |->
        LET i == CHOOSE i \in 1..k : RoomIdStr(i) = rid IN
        IF i = sp THEN SpecialProfile(i, label, defect) ELSE OrdinaryProfile(i)]

InitRank ==
    /\ upc = "clicked"
    /\ \E k \in RoomCounts, dup \in BOOLEAN :
          /\ rooms_raw = RawList(k, dup)
          /\ \E sp \in ({1, TopN + 1, k} \cap (1..k)) \cup {0},
                label \in SpecialLabels, defect \in Defects :
                site = SiteOf(k, sp, label, defect)
    /\ room_entries = <<>>
    /\ profiles = <<>>
    /\ top_df = <<>>
    /\ MergeIdle /\ ApiIdle /\ ProfileIdle /\ KeyIdle

\* lines 289-290: room_list is empty, a warning is shown
WarnNoRooms ==
    /\ upc = "clicked"
    /\ rooms_raw = <<>>
    /\ upc' = "warned"
    /\ UNCHANGED <<rooms_raw, site, room_entries, profiles, top_df, notRank>>

\* lines 293-307: the room ids, deduped
ListRoomEntries ==
    /\ upc = "clicked"
    /\ rooms_raw # <<>>
    /\ room_entries' = Dedupe(ExtractAll(rooms_raw))
    /\ upc' = "listed"
    /\ UNCHANGED <<rooms_raw, site, profiles, top_df, notRank>>

\* lines 311-315: a profile per room id of room_entries[:50]
FetchProfiles ==
    /\ upc = "listed"
    /\ profiles' = [i \in 1..Len(FirstN(room_entries, ProfileCap)) |->
                       fetch_room_profile(S(room_entries[i]), site[room_entries[i]]).value]
    /\ upc' = "fetched"
    /\ UNCHANGED <<rooms_raw, site, room_entries, top_df, notRank>>

\* lines 339-348: prof_df, its sort, and the top 10
RankAndShow ==
    /\ upc = "fetched"
    /\ top_df' = FirstN(SortRows([i \in 1..Len(profiles) |-> Row(profiles[i])]), TopN)
    /\ upc' = "shown"
    /\ UNCHANGED <<rooms_raw, site, room_entries, profiles, notRank>>

NextRank == WarnNoRooms \/ ListRoomEntries \/ FetchProfiles \/ RankAndShow

SpecRank == InitRank /\ [][NextRank]_vars

----------------------------------------------------------------------------
(* Claims about the ranking                                                *)

\* the sort key of a room: that of the profile the endpoint gives for it
RowOfRoom(rid) == Row(fetch_room_profile(S(rid), site[rid]).value)
Displayed == {top_df[i].room_id.s : i \in 1..Len(top_df)}

\* C8: the rows shown are the first 10 of all the deduplicated rooms of the
\* room list (room_entries) in descending (rank_key, room level, follower
\* count) order: 10 rows or every room, in that order, and no room left out
\* sorts strictly above a row shown
C8_TopTenOfAllRooms ==
    upc = "shown" =>
        /\ Len(top_df) = (IF Len(room_entries) < 10 THEN Len(room_entries) ELSE 10)
        /\ \A i \in 1..(Len(top_df) - 1) : ~RowLess(top_df[i], top_df[i + 1])
        /\ \A i \in 1..Len(room_entries) :
              room_entries[i] \notin Displayed =>
                  \A j \in 1..Len(top_df) : ~RowLess(top_df[j], RowOfRoom(room_entries[i]))

====
